---- MODULE Spec2Model ----
(***************************************************************************)
(* Model of the dazeus-go client: the correlation engine that multiplexes  *)
(* push events and responses on one connection (waitForResponse,           *)
(* waitForEvent), the listener registry (Subscribe, SubscribeCommand,      *)
(* Unsubscribe, handleEvent) and the scope encoder.                        *)
(*                                                                         *)
(* The program is single threaded and re-entrant.  Its Go call stack is    *)
(* the variable `stack`: one frame per function that is blocked in a read  *)
(* of the connection, iterating over the listeners, or running a handler.  *)
(* Frames are read from the connection whole: the frame a read returns is  *)
(* an input of the reading step, chosen among the frames the core can send *)
(* at that moment (an event, or the response to a request it has received  *)
(* and not answered).                                                      *)
(***************************************************************************)
EXTENDS Integers, Sequences, FiniteSets, TLC

\* ---- bounds of the model -------------------------------------------------
MaxCalls  == 4      \* requests written to the core in one behaviour
MaxEvents == 2      \* event frames pushed by the core in one behaviour
MaxRegs   == 3      \* registrations requested in one behaviour (SpecRegistry)
MaxFaults == 1      \* failures in one behaviour: errors of conn.Read and
                    \* conn.Write, and responses without success = true
MaxFrames == 2      \* frames the peer writes in one behaviour (SpecFraming)

\* ---- JSON values ---------------------------------------------------------
Nil    == "#nil"          \* an absent field (Go: nil interface value)
NonStr == "#nonstring"    \* any JSON value that is not a string / not a bool

EventJoin    == "JOIN"
EventPart    == "PART"
EventCommand == "COMMAND"

EventTypes == {EventJoin}      \* tags used with Subscribe
Commands   == {"a", "b"}                  \* command names
NoHandle   == 0 - 1                       \* the -1 Subscribe returns on error

\* A message of the core: a response carries success (and, as its data, the
\* number of the request it answers); an event carries event and params.
Response(id, succ) ==
    [event |-> Nil, params |-> [arr |-> FALSE, elems |-> <<>>],
     success |-> succ, id |-> id]

EventMsg(t, ps) ==
    [event |-> t, params |-> [arr |-> TRUE, elems |-> ps],
     success |-> Nil, id |-> 0]

SuccessValues == {"true", "false", Nil, NonStr}

\* The event frames the core sends.  makeEvent panics (index out of range) on
\* an empty params array and on a COMMAND event with fewer than four
\* parameters; such frames crash the program and are not sent here.
EventFrames ==
    { EventMsg(EventJoin, <<"net", "nick", "#chan">>),
      EventMsg(EventCommand, <<"net", "nick", "#chan", "a">>),
      EventMsg(NonStr, <<"net">>) }

\* ---- scope.go ------------------------------------------------------------
Scope(n, r, s) == [Network |-> n, Receiver |-> r, Sender |-> s]

NewUniversalScope      == Scope(Nil, Nil, Nil)
NewNetworkScope(n)     == Scope(n, Nil, Nil)
NewReceiverScope(n, r) == Scope(n, r, Nil)
NewSenderScope(n, s)   == Scope(n, Nil, s)
NewScope(n, r, s)      == Scope(n, r, s)

\* (variant: a scope with receiver and sender is not rejected)
ToCommandSliceNoCheck(scope) ==
    [err |-> FALSE,
     s |-> IF scope.Network # Nil
           THEN <<scope.Network>>
                \o (IF scope.Receiver # Nil
                    THEN <<"false", scope.Receiver>> ELSE <<>>)
                \o (IF scope.Sender # Nil
                    THEN <<"false", scope.Sender>> ELSE <<>>)
           ELSE <<>>]

ToCommandSlice(scope) ==
    IF scope.Receiver # Nil /\ scope.Sender # Nil
    THEN [err |-> TRUE, s |-> <<>>]
    ELSE [err |-> FALSE,
          s |-> IF scope.Network # Nil
                THEN <<scope.Network>>
                     \o (IF scope.Receiver # Nil
                         THEN <<"false", scope.Receiver>> ELSE <<>>)
                     \o (IF scope.Sender # Nil
                         THEN <<"false", scope.Sender>> ELSE <<>>)
                ELSE <<>>]

\* "scope.Network == nil && scope.Receiver == nil && scope.Sender == nil"
IsAll(scope) ==
    scope.Network = Nil /\ scope.Receiver = Nil /\ scope.Sender = Nil

\* (variant: the three fields are appended one after the other, not nested)
ToSliceFlat(scope) ==
    (IF scope.Network # Nil THEN <<scope.Network>> ELSE <<>>)
    \o (IF scope.Receiver # Nil THEN <<scope.Receiver>> ELSE <<>>)
    \o (IF scope.Sender # Nil THEN <<scope.Sender>> ELSE <<>>)

\* ToSlice: the receiver is appended inside "if scope.Network != nil", the
\* sender inside "if scope.Receiver != nil"
ToSlice(scope) ==
    IF scope.Network # Nil
    THEN <<scope.Network>>
         \o (IF scope.Receiver # Nil
             THEN <<scope.Receiver>>
                  \o (IF scope.Sender # Nil THEN <<scope.Sender>> ELSE <<>>)
             ELSE <<>>)
    ELSE <<>>

\* scopes passed to SubscribeCommand: every combination of set and unset
\* fields (the fields are exported, so not only the constructors' scopes)
CommandScopes ==
    { Scope(n, r, s) :
          n \in {Nil, "net"}, r \in {Nil, "#chan"}, s \in {Nil, "nick"} }

\* ---- util: makeStringArray ----------------------------------------------
makeStringArray(fieldValue) ==
    IF ~fieldValue.arr THEN [err |-> TRUE, strs |-> <<>>]
    ELSE IF \E i \in DOMAIN fieldValue.elems : fieldValue.elems[i] = NonStr
         THEN [err |-> TRUE, strs |-> <<>>]
         ELSE [err |-> FALSE, strs |-> fieldValue.elems]

\* ---- event: makeEvent ----------------------------------------------------
NoEvent == [Event |-> Nil, Command |-> "", Network |-> "", Sender |-> "",
            Channel |-> "", Params |-> <<>>]

makeEvent(message) ==
    IF message.event = NonStr THEN [err |-> TRUE, evt |-> NoEvent]
    ELSE LET sa == makeStringArray(message.params) IN
      IF sa.err THEN [err |-> TRUE, evt |-> NoEvent]
      ELSE LET params  == sa.strs
               n       == Len(params)
               sender  == IF n < 2 THEN "" ELSE params[2]
               channel == IF n < 3 THEN "" ELSE params[3]
               rest    == IF n < 2 THEN SubSeq(params, 2, n)
                          ELSE IF n < 3 THEN SubSeq(params, 3, n)
                          ELSE SubSeq(params, 4, n)
               isCmd   == message.event = "COMMAND"
           IN [err |-> FALSE,
               evt |-> [Event   |-> message.event,
                        Command |-> IF isCmd THEN rest[1] ELSE "",
                        Network |-> params[1],
                        Sender  |-> sender,
                        Channel |-> channel,
                        Params  |-> IF isCmd THEN Tail(rest) ELSE rest]]

\* ---- framing: bytes, JSON bodies, length prefix -------------------------
\* A byte is a one-character string; "\n" is LF.
Digits == <<"0", "1", "2", "3", "4", "5", "6", "7", "8", "9">>
IsDigit(c) == \E i \in DOMAIN Digits : Digits[i] = c
DigitValue(c) == (CHOOSE i \in DOMAIN Digits : Digits[i] = c) - 1

\* The messages framed here: a JSON object that holds one string, text.
Texts == { << >>, <<"a">>, <<"\n", "1">>, <<"\n", "\n", "\n", "\n">> }

\* json.Marshal of a string: a control character is written as an escape
RECURSIVE Escape(_)
Escape(text) ==
    IF text = << >> THEN << >>
    ELSE (IF Head(text) = "\n" THEN <<"\\", "n">> ELSE <<Head(text)>>)
         \o Escape(Tail(text))

\* json.Marshal(message): the object's braces around its content
Marshal(text) == <<"{">> \o Escape(text) \o <<"}">>

\* json.Unmarshal of a string's content: [err, text]; a raw control
\* character and an unfinished or unknown escape are errors
RECURSIVE Unescape(_)
Unescape(bytes) ==
    IF bytes = << >> THEN [err |-> FALSE, text |-> << >>]
    ELSE IF Head(bytes) = "\n" THEN [err |-> TRUE, text |-> << >>]
    ELSE IF Head(bytes) = "\\"
    THEN IF Len(bytes) >= 2 /\ bytes[2] = "n"
         THEN LET r == Unescape(Tail(Tail(bytes)))
              IN [err |-> r.err, text |-> <<"\n">> \o r.text]
         ELSE [err |-> TRUE, text |-> << >>]
    ELSE LET r == Unescape(Tail(bytes))
         IN [err |-> r.err, text |-> <<Head(bytes)>> \o r.text]

\* json.Unmarshal(message, &msg): [err, text]
Unmarshal(bytes) ==
    IF Len(bytes) >= 2 /\ bytes[1] = "{" /\ bytes[Len(bytes)] = "}"
    THEN LET r == Unescape(SubSeq(bytes, 2, Len(bytes) - 1))
         IN IF r.err THEN [err |-> TRUE, text |-> << >>] ELSE r
    ELSE [err |-> TRUE, text |-> << >>]

\* (variant: the digits come out lowest first)
RECURSIVE ItoaReversed(_)
ItoaReversed(n) ==
    IF n < 10 THEN <<Digits[n + 1]>>
    ELSE <<Digits[(n % 10) + 1]>> \o ItoaReversed(n \div 10)

\* strconv.Itoa for n >= 0
RECURSIVE Itoa(_)
Itoa(n) ==
    IF n < 10 THEN <<Digits[n + 1]>>
    ELSE Itoa(n \div 10) \o <<Digits[(n % 10) + 1]>>

\* write: "tosend := append(msglen, bytes...)"
Encode(text) == Itoa(Len(Marshal(text))) \o Marshal(text)

\* the loop of checkMessage: [offset, messageLen] when it ends
RECURSIVE Scan(_, _, _)
Scan(buf, offset, messageLen) ==
    IF offset < Len(buf)
    THEN LET curr == buf[offset + 1] IN
         IF IsDigit(curr)
         THEN Scan(buf, offset + 1, messageLen * 10 + DigitValue(curr))
         ELSE IF curr = "\n" \/ curr = "\r"
         THEN Scan(buf, offset + 1, messageLen)
         ELSE [offset |-> offset, messageLen |-> messageLen]
    ELSE [offset |-> offset, messageLen |-> messageLen]

\* (variant: the frame is reported before all of its body is buffered)
checkMessageEarly(buf) ==
    LET sc == Scan(buf, 0, 0) IN
    IF sc.messageLen > 0 /\ Len(buf) >= sc.offset + 1
    THEN [found |-> TRUE, offset |-> sc.offset, messageLen |-> sc.messageLen]
    ELSE [found |-> FALSE, offset |-> 0, messageLen |-> 0]

\* checkMessage: (hasMessage, offset, messageLen)
checkMessage(buf) ==
    LET sc == Scan(buf, 0, 0) IN
    IF sc.messageLen > 0 /\ Len(buf) >= sc.offset + sc.messageLen
    THEN [found |-> TRUE, offset |-> sc.offset, messageLen |-> sc.messageLen]
    ELSE [found |-> FALSE, offset |-> 0, messageLen |-> 0]

\* bytes.Buffer.Read(p) with len(p) = n: the first n bytes, or what is there
Take(buf, n) == SubSeq(buf, 1, IF n < Len(buf) THEN n ELSE Len(buf))

\* (variant: off by one, the last byte read stays in the buffer)
DropShort(buf, n) == SubSeq(buf, Len(Take(buf, n)), Len(buf))

\* what bytes.Buffer.Read leaves in the buffer
Drop(buf, n) == SubSeq(buf, Len(Take(buf, n)) + 1, Len(buf))

\* read, once checkMessage has found a frame in buf: the discard of the
\* prefix, the body, its decoding; [err, text, rest]
ReadFrame(buf) ==
    LET c       == checkMessage(buf)
        discard == Take(buf, c.offset)
        b1      == Drop(buf, c.offset)
        message == Take(b1, c.messageLen)
        b2      == Drop(b1, c.messageLen)
        u       == Unmarshal(message)
    IN IF Len(discard) # c.offset \/ Len(message) # c.messageLen
       THEN [err |-> TRUE, text |-> << >>, rest |-> b2]
       ELSE [err |-> u.err, text |-> u.text, rest |-> b2]

\* ---- state ---------------------------------------------------------------
VARIABLES
    listeners,       \* DaZeus.listeners: handle -> [event, command]
    lastHandle,      \* DaZeus.lastHandle
    callDepth,       \* DaZeus.callDepth
    responseQueue,   \* DaZeus.responseQueue
    connOut,         \* requests written to the core and not answered yet
    stack,           \* the Go call stack, innermost frame last
    reqCount,        \* number of requests written; a request's number
    evCount,         \* number of event frames the core has sent
    issued,          \* history: [h, l] of every registration, in order
    last,            \* history: what the most recent step did at the API
    inOrder,         \* history: the core has answered in request order
    faulted,         \* history: a transport or decoding error has occurred
    faults,          \* history: number of failures so far (see MaxFaults)
    maxNest,         \* history: largest callDepth at which a call was made
    misrouted,       \* history: a call was handed another call's response
    readR,           \* history: responses read by waitForResponse
    delivered,       \* history: responses returned to calls, in order
    dequeued,        \* history: responses removed from responseQueue
    subWritten,      \* history: "subscribe" requests written, per event type
    regCount,        \* history: "subscribe" and "command" requests written
    wire,            \* bytes the peer has written that conn.Read has not
                     \* returned yet
    buffer,          \* DaZeus.buffer
    sent,            \* history: [text, sep] of the frames the peer wrote
    recv,            \* history: [err, text, had], what read returned, in
                     \* order; had: the bytes buffered when it returned
    rdErr,           \* "none", or the kind of error read has returned
    garbage,         \* history: the malformed bytes the peer wrote
    scopeCall,       \* history: the most recent call of a Scope method or of
                     \* a permission method: arguments, request and result
    scopePrev        \* history: the call before it

regVars   == <<listeners, lastHandle, issued>>
engVars   == <<callDepth, responseQueue>>
coreVars  == <<connOut, evCount, inOrder>>
faultVars == <<faulted, faults>>
routeVars == <<misrouted, readR, delivered, dequeued>>
issueVars == <<reqCount, maxNest, subWritten, regCount>>

frameVars == <<wire, buffer, sent, recv, rdErr, garbage>>
progVars  == <<listeners, lastHandle, callDepth, responseQueue, connOut,
               stack, reqCount, evCount, issued, last, inOrder, faulted,
               faults, maxNest, misrouted, readR, delivered, dequeued,
               subWritten, regCount>>

scopeVars == <<scopeCall, scopePrev>>

vars == <<progVars, frameVars, scopeVars>>

Listener(event, command) == [event |-> event, command |-> command]

NoStep == [op |-> "none", phase |-> "none", req |-> 0, h |-> NoHandle,
           err |-> FALSE, wrote |-> FALSE, got |-> 0, succ |-> Nil,
           data |-> Response(0, Nil)]

\* op: the public method; phase "call": it wrote its request and blocks,
\* "ret": it returned; req: the number of its request (0: none written);
\* h: the handle Subscribe returned or Unsubscribe was called with (when the
\* call returns from waitForResponse: none); err: it returned an error;
\* wrote: it called
\* conn.Write; got, succ: the response waitForResponse handed to it (for
\* Listen: the frame without an event that ended it); data: the message
\* waitForSuccessResponse handed to the method (nil: Response(0, Nil)).
Step(op, phase, req, h, err, wrote, got, succ) ==
    [op |-> op, phase |-> phase, req |-> req, h |-> h, err |-> err,
     wrote |-> wrote, got |-> got, succ |-> succ, data |-> Response(0, Nil)]

\* ConnectWithLogger
InitialHandle == 1

\* op: the method called; scope: its Scope; err: it returned an error;
\* out: the slice ToSlice or ToCommandSlice returned; wrote, req: the request
\* handed to writeForSuccessResponse; ret: the bool HasPermission returned
NoRequest == [do |-> "", scope |-> << >>, params |-> << >>]
NoCall == [op |-> "none", scope |-> NewUniversalScope, err |-> FALSE,
           out |-> << >>, wrote |-> FALSE, req |-> NoRequest, ret |-> Nil]

Init ==
    /\ listeners = << >>
    /\ lastHandle = InitialHandle
    /\ callDepth = 0
    /\ responseQueue = << >>
    /\ connOut = << >>
    /\ stack = << >>
    /\ reqCount = 0
    /\ evCount = 0
    /\ issued = << >>
    /\ last = NoStep
    /\ inOrder = TRUE
    /\ faulted = FALSE
    /\ faults = 0
    /\ maxNest = 0
    /\ misrouted = FALSE
    /\ readR = {}
    /\ delivered = << >>
    /\ dequeued = {}
    /\ subWritten = [e \in EventTypes |-> 0]
    /\ regCount = 0
    /\ wire = << >>
    /\ buffer = << >>
    /\ sent = << >>
    /\ recv = << >>
    /\ rdErr = "none"
    /\ garbage = << >>
    /\ scopeCall = NoCall
    /\ scopePrev = NoCall

\* ---- failures -------------------------------------------------------------
TransportFault == /\ faults < MaxFaults
                  /\ faults' = faults + 1
                  /\ faulted' = TRUE
DecodeFault    == /\ faulted' = TRUE
                  /\ UNCHANGED faults

\* ---- stack frames --------------------------------------------------------
\* d0, q0: callDepth and responseQueue when the method was called; nf: a
\* call made by a handler while this call waits has failed
WaitFrame(req, op, ldata) ==
    [k |-> "wait", req |-> req, op |-> op, ldata |-> ldata,
     d0 |-> callDepth, q0 |-> responseQueue, nf |-> FALSE]
ListenFrame == [k |-> "listen"]
\* d0: callDepth when the event frame was read
DispatchFrame(evt) ==
    [k |-> "dispatch", evt |-> evt, start |-> DOMAIN listeners,
     seen |-> {}, inv |-> << >>, d0 |-> callDepth]
HandlerFrame(h) == [k |-> "handler", h |-> h]

Top == stack[Len(stack)]
Pop(s) == SubSeq(s, 1, Len(s) - 1)

\* A public method can be called by the application (empty stack) or by a
\* handler that is running.
CanCall == IF stack = << >> THEN TRUE ELSE Top.k = "handler"

\* (variant: the entry is not deleted)
RemoveNothing(f, h) == f

Remove(f, h) == [x \in DOMAIN f \ {h} |-> f[x]]
Put(f, h, v) == [x \in DOMAIN f \cup {h} |-> IF x = h THEN v ELSE f[x]]

NoListener == Listener(Nil, "")
NoMsg == Response(0, Nil)

\* ---- the core ------------------------------------------------------------
Request(id, do, params) == [id |-> id, do |-> do, params |-> params]

\* The frames a read can return now: the response, with any success field,
\* to a request the core has received, or one more event.
Responses(I) ==
    { Response(connOut[i].id, succ) :
          i \in I \cap DOMAIN connOut,
          succ \in IF faults < MaxFaults THEN SuccessValues ELSE {"true"} }

\* what a core that answers in the order received can send
InOrderFrames ==
    Responses({1}) \cup (IF evCount < MaxEvents THEN EventFrames ELSE {})
\* a response that overtakes the response to an older request
LateFrames == Responses(2..MaxCalls)
CoreFrames == InOrderFrames \cup LateFrames

\* The core has sent msg.  A response answers its request, which leaves
\* connOut; it is in order when that request was the oldest one.
CoreSent(msg) ==
    IF msg.event = Nil
    THEN /\ connOut' = SelectSeq(connOut, LAMBDA r : r.id # msg.id)
         /\ inOrder' = (inOrder /\ connOut[1].id = msg.id)
         /\ faults' = IF msg.success = "true" THEN faults ELSE faults + 1
         /\ UNCHANGED <<evCount, faulted>>
    ELSE /\ evCount' = evCount + 1
         /\ IF makeEvent(msg).err THEN DecodeFault ELSE UNCHANGED faultVars
         /\ UNCHANGED <<connOut, inOrder>>

\* ---- correlation: waitForSuccessResponse ---------------------------------
\* (variant: the value of success is not looked at)
waitForSuccessResponseAnyBool(response, err) ==
    IF err THEN [err |-> TRUE, msg |-> NoMsg]
    ELSE IF response.success = Nil THEN [err |-> TRUE, msg |-> NoMsg]
    ELSE IF response.success \notin {"true", "false"}
         THEN [err |-> TRUE, msg |-> NoMsg]
    ELSE [err |-> FALSE, msg |-> response]

\* (variant: a response with success = false is handed back with the error)
waitForSuccessResponseKeepsData(response, err) ==
    IF err THEN [err |-> TRUE, msg |-> NoMsg]
    ELSE IF response.success = Nil THEN [err |-> TRUE, msg |-> NoMsg]
    ELSE IF response.success \notin {"true", "false"}
         THEN [err |-> TRUE, msg |-> NoMsg]
    ELSE IF response.success # "true" THEN [err |-> TRUE, msg |-> response]
    ELSE [err |-> FALSE, msg |-> response]

waitForSuccessResponse(response, err) ==
    IF err THEN [err |-> TRUE, msg |-> NoMsg]
    ELSE IF response.success = Nil THEN [err |-> TRUE, msg |-> NoMsg]
    ELSE IF response.success \notin {"true", "false"}
         THEN [err |-> TRUE, msg |-> NoMsg]
    ELSE IF response.success # "true" THEN [err |-> TRUE, msg |-> NoMsg]
    ELSE [err |-> FALSE, msg |-> response]

\* No public method returns in this step.
Stay(stk) ==
    /\ stack' = stk
    /\ last' = NoStep
    /\ UNCHANGED <<regVars, misrouted, delivered>>

Max(a, b) == IF a > b THEN a ELSE b

\* history: a call has failed; the calls that wait around it are marked
MarkFailed(stk) ==
    [i \in DOMAIN stk |->
        IF stk[i].k = "wait" THEN [stk[i] EXCEPT !.nf = TRUE] ELSE stk[i]]

\* (variant: the error of write is dropped and the call goes on to wait)
WriteFailedIgnored(err) == FALSE

\* "err := dazeus.write(req); if err != nil { return resp, err }"
WriteFailed(err) == err

\* writeForSuccessResponse, first half: write the request and block in
\* waitForResponse (a "wait" frame), or return the error of write.
\* werr: conn.Write fails or is short; the request does not reach the core.
Issue(op, do, params, ldata, h, werr) ==
    IF WriteFailed(werr)
    THEN /\ TransportFault
         /\ last' = Step(op, "ret", 0, h, TRUE, TRUE, 0, Nil)
         /\ stack' = MarkFailed(stack)
         /\ UNCHANGED <<connOut, issueVars>>
    ELSE /\ reqCount < MaxCalls
         /\ reqCount' = reqCount + 1
         /\ connOut' = Append(connOut, Request(reqCount + 1, do, params))
         /\ stack' = Append(stack, WaitFrame(reqCount + 1, op, ldata))
         /\ last' = Step(op, "call", reqCount + 1, h, FALSE, TRUE, 0, Nil)
         /\ maxNest' = Max(maxNest, callDepth)
         /\ subWritten' = IF do = "subscribe"
                          THEN [subWritten EXCEPT ![params[1]] = @ + 1]
                          ELSE subWritten
         /\ regCount' = IF do \in {"subscribe", "command"}
                        THEN regCount + 1 ELSE regCount
         /\ UNCHANGED faultVars

\* (variant: the increment is missing)
NextHandleSame(h) == h

\* "dazeus.lastHandle++"
NextHandle(h) == h + 1

\* writeForSuccessResponse, second half, and the rest of the public method
\* that called it: waitForResponse has returned (msg, rerr) to the call f.
\* Subscribe and SubscribeCommand register the listener under lastHandle.
Return(f, msg, rerr, stk) ==
    LET r   == waitForSuccessResponse(msg, rerr)
        reg == ~r.err /\ f.op \in {"subscribe", "command"}
    IN /\ stack' = IF r.err THEN MarkFailed(stk) ELSE stk
       /\ listeners' = IF reg THEN Put(listeners, lastHandle, f.ldata)
                       ELSE listeners
       /\ lastHandle' = IF reg THEN NextHandle(lastHandle) ELSE lastHandle
       /\ issued' = IF reg
                    THEN Append(issued, [h |-> lastHandle, l |-> f.ldata])
                    ELSE issued
       /\ last' = [Step(f.op, "ret", f.req,
                        IF reg THEN lastHandle ELSE NoHandle, r.err, FALSE,
                        IF rerr THEN 0 ELSE msg.id,
                        IF rerr THEN Nil ELSE msg.success)
                      EXCEPT !.data = r.msg]
       /\ delivered' = IF rerr THEN delivered ELSE Append(delivered, msg.id)
       /\ misrouted' = (misrouted \/ (~rerr /\ msg.id # f.req))

\* ---- public methods ------------------------------------------------------
Subscribe(event, werr) ==
    /\ CanCall
    /\ Issue("subscribe", "subscribe", <<event>>, Listener(event, ""),
             NoHandle, werr)
    /\ UNCHANGED <<regVars, engVars, evCount, inOrder, routeVars>>

SubscribeCommand(command, scope, werr) ==
    /\ CanCall
    /\ LET sl == ToCommandSlice(scope) IN
         IF sl.err
         THEN /\ ~werr
              /\ last' = Step("command", "ret", 0, NoHandle, TRUE, FALSE, 0,
                              Nil)
              /\ UNCHANGED <<connOut, stack, issueVars, faultVars>>
         ELSE Issue("command", "command", <<command>> \o sl.s,
                    Listener(EventCommand, command), NoHandle, werr)
    /\ UNCHANGED <<regVars, engVars, evCount, inOrder, routeVars>>

\* (variant: ok is not looked at)
MapGetUnchecked(handle) ==
    [ok |-> TRUE,
     listener |-> IF handle \in DOMAIN listeners
                  THEN listeners[handle] ELSE Listener("", "")]

\* "listener, ok := dazeus.listeners[handle]": a missing key gives the zero
\* listener and ok = false.
MapGet(handle) ==
    IF handle \in DOMAIN listeners
    THEN [ok |-> TRUE, listener |-> listeners[handle]]
    ELSE [ok |-> FALSE, listener |-> Listener("", "")]

\* (variant: any other listener counts)
SharesEventAny(rest, listener) == DOMAIN rest # {}

\* the loop that looks for another listener of the same event type
SharesEvent(rest, listener) ==
    \E x \in DOMAIN rest : rest[x].event = listener.event

Unsubscribe(handle, werr) ==
    /\ CanCall
    /\ IF ~MapGet(handle).ok
       THEN /\ ~werr
            /\ last' = Step("unsubscribe", "ret", 0, handle, TRUE, FALSE, 0,
                            Nil)
            /\ UNCHANGED <<listeners, connOut, stack, issueVars, faultVars>>
       ELSE LET listener == MapGet(handle).listener
                rest     == Remove(listeners, handle)
                found    == SharesEvent(rest, listener)
            IN /\ listeners' = rest
               /\ IF listener.event # "COMMAND" /\ ~found
                  THEN Issue("unsubscribe", "unsubscribe",
                             <<listener.event>>, NoListener, handle, werr)
                  ELSE /\ ~werr
                       /\ last' = Step("unsubscribe", "ret", 0, handle, FALSE,
                                       FALSE, 0, Nil)
                       /\ UNCHANGED <<connOut, stack, issueVars, faultVars>>
    /\ UNCHANGED <<lastHandle, issued, engVars, evCount, inOrder, routeVars>>

\* Networks stands for the plain request wrappers (Networks, Join, ...): one
\* writeForSuccessResponse whose response is handed to the caller.
Networks(werr) ==
    /\ CanCall
    /\ Issue("get", "networks", << >>, NoListener, NoHandle, werr)
    /\ UNCHANGED <<regVars, engVars, evCount, inOrder, routeVars>>

\* Listen, called by the application: enter the waitForEvent loop.
Listen ==
    /\ stack = << >>
    /\ stack' = <<ListenFrame>>
    /\ last' = Step("listen", "call", 0, NoHandle, FALSE, FALSE, 0, Nil)
    /\ UNCHANGED <<regVars, engVars, coreVars, faultVars, routeVars,
                   issueVars>>

\* ---- correlation: waitForResponse ----------------------------------------
\* (variant: every response read is taken by the call that read it)
ResponseIsMineAlways(queue, depth) == TRUE

\* (variant: the comparison is "<", so a response read is queued again)
ResponseIsMineBelow(queue, depth) == Len(queue) < depth

\* "if len(dazeus.responseQueue) == dazeus.callDepth": the response just read
\* belongs to the call that read it.
ResponseIsMine(queue, depth) == Len(queue) = depth

\* (variant: the comparison is off by one and misses a single response)
HasBufferedOffByOne(queue, depth) == Len(queue) > depth + 1

\* "check for buffered messages": after an event was handled at depth, the
\* head of the queue is this call's response.
HasBuffered(queue, depth) == Len(queue) > depth

\* (variant: the head is returned and stays in the queue)
DequeueKeepsHead(queue) == queue

\* (variant: the increment is missing)
EnterStays(depth) == depth

\* "dazeus.callDepth++" before handleEvent
Enter(depth) == depth + 1

\* (variant: the decrement is missing)
LeaveStays(depth) == depth

\* "dazeus.callDepth--" after handleEvent
Leave(depth) == depth - 1

\* "dazeus.responseQueue = dazeus.responseQueue[1:]"
Dequeue(queue) == Tail(queue)

\* One iteration of the loop of waitForResponse in the innermost call.
\* rerr: read fails (conn.Read error, or a JSON body that does not decode);
\* otherwise read returns the frame msg.
waitForResponse(rerr, msg) ==
    /\ stack # << >> /\ Top.k = "wait"
    /\ IF rerr
       THEN /\ TransportFault
            /\ Return(Top, NoMsg, TRUE, Pop(stack))
            /\ UNCHANGED <<engVars, coreVars, readR, dequeued>>
       ELSE
        /\ msg \in CoreFrames
        /\ CoreSent(msg)
        /\ IF msg["event"] # Nil
           THEN LET me == makeEvent(msg) IN
                IF me.err
                THEN \* callDepth++; handleEvent fails; callDepth--
                     /\ Return(Top, NoMsg, TRUE, Pop(stack))
                     /\ callDepth' = Leave(Enter(callDepth))
                     /\ UNCHANGED <<responseQueue, readR>>
                ELSE /\ callDepth' = Enter(callDepth)
                     /\ Stay(Append(stack, DispatchFrame(me.evt)))
                     /\ UNCHANGED <<responseQueue, readR>>
           ELSE /\ readR' = readR \cup {msg.id}
                /\ IF ResponseIsMine(responseQueue, callDepth)
                   THEN /\ Return(Top, msg, FALSE, Pop(stack))
                        /\ UNCHANGED engVars
                   ELSE \* this one is for one call level above
                        /\ responseQueue' = Append(responseQueue, msg)
                        /\ Stay(stack)
                        /\ UNCHANGED callDepth
    /\ UNCHANGED <<issueVars, dequeued>>

\* ---- correlation: waitForEvent (the body of the Listen loop) -------------
\* (variant: the frame is dropped and the loop goes on)
NonEventIgnored(msg) ==
    /\ stack' = stack
    /\ last' = NoStep

\* "if msg["event"] == nil { return errors.New(...) }": Listen returns
NonEvent(msg) ==
    /\ stack' = Pop(stack)
    /\ last' = Step("listen", "ret", 0, NoHandle, TRUE, FALSE,
                    msg.id, msg.success)

waitForEvent(rerr, msg) ==
    /\ stack # << >> /\ Top.k = "listen"
    /\ IF rerr
       THEN /\ TransportFault
            /\ stack' = Pop(stack)
            /\ last' = Step("listen", "ret", 0, NoHandle, TRUE, FALSE, 0,
                            Nil)
            /\ UNCHANGED coreVars
       ELSE
        /\ msg \in CoreFrames
        /\ CoreSent(msg)
        /\ LET me == makeEvent(msg) IN
           IF msg["event"] = Nil
           THEN NonEvent(msg)
           ELSE IF me.err
           THEN /\ stack' = Pop(stack)
                /\ last' = Step("listen", "ret", 0, NoHandle, TRUE, FALSE, 0,
                                Nil)
           ELSE /\ stack' = Append(stack, DispatchFrame(me.evt))
                /\ last' = NoStep
    /\ UNCHANGED <<regVars, engVars, routeVars, issueVars>>

\* ---- event: handleEvent --------------------------------------------------
\* The loop "for _, l := range dazeus.listeners".  Go leaves the iteration
\* order of a map unspecified; an entry removed before it is reached is not
\* produced, an entry added during the iteration may be produced or skipped.
Required(f) == (f.start \ f.seen) \cap DOMAIN listeners
Optional(f) == (DOMAIN listeners \ f.start) \ f.seen

\* (variant: the command filter is not compared)
MatchesEventOnly(l, evt) == l.event = evt.Event

\* the condition under which handleEvent calls the handler of l
Matches(l, evt) ==
    l.event = evt.Event /\ (l.event # EventCommand \/ l.command = evt.Command)

\* the iteration produces the entry h; a matching listener's handler is called
handleEventNext(h) ==
    /\ stack # << >> /\ Top.k = "dispatch"
    /\ h \in Required(Top) \cup Optional(Top)
    /\ LET n == Len(stack)
           m == Matches(listeners[h], Top.evt)
           f == [Top EXCEPT !.seen = @ \cup {h},
                            !.inv = IF m THEN Append(@, h) ELSE @]
       IN Stay([stack EXCEPT ![n] = f]
               \o (IF m THEN <<HandlerFrame(h)>> ELSE << >>))
    /\ UNCHANGED <<engVars, coreVars, faultVars, readR, dequeued, issueVars>>

\* the iteration ends; handleEvent returns nil to waitForResponse or to
\* waitForEvent.  waitForResponse then checks for buffered messages.
handleEventReturn ==
    /\ stack # << >> /\ Top.k = "dispatch"
    /\ Required(Top) = {}
    /\ LET caller == stack[Len(stack) - 1]
           below  == SubSeq(stack, 1, Len(stack) - 2)
       IN IF caller.k = "wait"
          THEN /\ callDepth' = Leave(callDepth)
               /\ IF HasBuffered(responseQueue, Leave(callDepth))
                  THEN /\ responseQueue' = Dequeue(responseQueue)
                       /\ dequeued' = dequeued \cup {responseQueue[1].id}
                       /\ Return(caller, responseQueue[1], FALSE, below)
                  ELSE /\ Stay(Pop(stack))
                       /\ UNCHANGED <<responseQueue, dequeued>>
          ELSE /\ Stay(Pop(stack))
               /\ UNCHANGED <<engVars, dequeued>>
    /\ UNCHANGED <<coreVars, faultVars, readR, issueVars>>

\* a handler returns to the loop of handleEvent
HandlerReturn ==
    /\ stack # << >> /\ Top.k = "handler"
    /\ Stay(Pop(stack))
    /\ UNCHANGED <<engVars, coreVars, faultVars, readR, dequeued, issueVars>>

\* ---- framing: the peer, and read ----------------------------------------
\* what the peer puts between two frames
Separators == { << >>, <<"\n">> }

\* malformed bytes: a first byte that is no digit, a declared length of 0,
\* and a frame whose body is no JSON object
Malformed == { <<"a">>, <<"0", "{", "}">>, <<"1", "a">> }

\* the peer writes a frame, encoded as write encodes it
PeerWrite(text, sep) ==
    /\ Len(sent) < MaxFrames /\ garbage = << >> /\ rdErr = "none"
    /\ wire' = wire \o sep \o Encode(text)
    /\ sent' = Append(sent, [text |-> text, sep |-> sep])
    /\ UNCHANGED <<buffer, recv, rdErr, garbage>>

\* the peer writes malformed bytes, and nothing after them
PeerGarbage(g) ==
    /\ garbage = << >> /\ rdErr = "none"
    /\ wire' = wire \o g
    /\ garbage' = g
    /\ UNCHANGED <<buffer, sent, recv, rdErr>>

\* read finds no frame: conn.Read returns the next n bytes, which are
\* written to the buffer
readFill(n) ==
    /\ rdErr = "none" /\ ~checkMessage(buffer).found
    /\ n \in 1..Len(wire)
    /\ buffer' = buffer \o SubSeq(wire, 1, n)
    /\ wire' = SubSeq(wire, n + 1, Len(wire))
    /\ UNCHANGED <<sent, recv, rdErr, garbage>>

\* read finds no frame and conn.Read returns an error
readFail ==
    /\ rdErr = "none" /\ ~checkMessage(buffer).found
    /\ rdErr' = "transport"
    /\ UNCHANGED <<wire, buffer, sent, recv, garbage>>

\* read finds a frame: it removes the frame from the buffer and returns the
\* decoded message or the error of json.Unmarshal
readReturn ==
    /\ rdErr = "none" /\ checkMessage(buffer).found
    /\ LET r == ReadFrame(buffer) IN
         /\ buffer' = r.rest
         /\ recv' = Append(recv, [err |-> r.err, text |-> r.text,
                                  had |-> Len(buffer)])
         /\ rdErr' = IF r.err THEN "decode" ELSE "none"
    /\ UNCHANGED <<wire, sent, garbage>>

\* ---- specifications ------------------------------------------------------
\* Spec: the correlation engine.  The application and the handlers call
\* Subscribe and Networks, the application calls Listen; the core sends
\* events and answers the requests, in any order.
Next ==
    \/ /\ \E e \in EventTypes, werr \in BOOLEAN : Subscribe(e, werr)
       /\ UNCHANGED <<frameVars, scopeVars>>
    \/ /\ \E werr \in BOOLEAN : Networks(werr)
       /\ UNCHANGED <<frameVars, scopeVars>>
    \/ /\ Listen
       /\ UNCHANGED <<frameVars, scopeVars>>
    \/ /\ \E m \in InOrderFrames : waitForResponse(FALSE, m)
       /\ UNCHANGED <<frameVars, scopeVars>>
    \/ /\ \E m \in LateFrames : waitForResponse(FALSE, m)
       /\ UNCHANGED <<frameVars, scopeVars>>
    \/ /\ waitForResponse(TRUE, NoMsg)
       /\ UNCHANGED <<frameVars, scopeVars>>
    \/ /\ \E m \in CoreFrames : waitForEvent(FALSE, m)
       /\ UNCHANGED <<frameVars, scopeVars>>
    \/ /\ waitForEvent(TRUE, NoMsg)
       /\ UNCHANGED <<frameVars, scopeVars>>
    \/ /\ \E h \in 0..lastHandle : handleEventNext(h)
       /\ UNCHANGED <<frameVars, scopeVars>>
    \/ /\ handleEventReturn
       /\ UNCHANGED <<frameVars, scopeVars>>
    \/ /\ HandlerReturn
       /\ UNCHANGED <<frameVars, scopeVars>>

Spec == Init /\ [][Next]_vars

\* SpecRegistry: the listener registry.  The application and the handlers
\* call Subscribe, SubscribeCommand and Unsubscribe; the core sends events
\* and answers the requests in the order received.
NextRegistry ==
    \/ /\ \E e \in EventTypes, werr \in BOOLEAN :
             regCount < MaxRegs /\ Subscribe(e, werr)
       /\ UNCHANGED <<frameVars, scopeVars>>
    \/ /\ \E c \in Commands, sc \in CommandScopes, werr \in BOOLEAN :
             regCount < MaxRegs /\ SubscribeCommand(c, sc, werr)
       /\ UNCHANGED <<frameVars, scopeVars>>
    \/ /\ \E h \in 0..lastHandle, werr \in BOOLEAN : Unsubscribe(h, werr)
       /\ UNCHANGED <<frameVars, scopeVars>>
    \/ /\ \E m \in InOrderFrames : waitForResponse(FALSE, m)
       /\ UNCHANGED <<frameVars, scopeVars>>
    \/ /\ waitForResponse(TRUE, NoMsg)
       /\ UNCHANGED <<frameVars, scopeVars>>
    \/ /\ \E h \in 0..lastHandle : handleEventNext(h)
       /\ UNCHANGED <<frameVars, scopeVars>>
    \/ /\ handleEventReturn
       /\ UNCHANGED <<frameVars, scopeVars>>
    \/ /\ HandlerReturn
       /\ UNCHANGED <<frameVars, scopeVars>>

SpecRegistry == Init /\ [][NextRegistry]_vars

\* SpecFraming: the byte stream.  The peer writes frames, then possibly
\* malformed bytes; conn.Read hands them over in chunks of any size; read is
\* called until it returns an error.
NextFraming ==
    \/ /\ \E text \in Texts, sep \in Separators : PeerWrite(text, sep)
       /\ UNCHANGED <<progVars, scopeVars>>
    \/ /\ \E g \in Malformed : PeerGarbage(g)
       /\ UNCHANGED <<progVars, scopeVars>>
    \/ /\ \E n \in 1..Len(wire) : readFill(n)
       /\ UNCHANGED <<progVars, scopeVars>>
    \/ /\ readFail
       /\ UNCHANGED <<progVars, scopeVars>>
    \/ /\ readReturn
       /\ UNCHANGED <<progVars, scopeVars>>

SpecFraming == Init /\ [][NextFraming]_vars

\* read runs on: a conn.Read that has bytes to return returns, and read
\* returns a frame it has found.  That conn.Read fails is up to the peer.
FairFraming ==
    /\ WF_vars(\E n \in 1..Len(wire) :
                  readFill(n) /\ UNCHANGED <<progVars, scopeVars>>)
    /\ WF_vars(readReturn /\ UNCHANGED <<progVars, scopeVars>>)

SpecFramingLive == SpecFraming /\ FairFraming

\* ---- scope and permission methods -----------------------------------------
\* Scope has exported fields: the application can build any combination of
\* set and unset fields, with equal or different names
Names == {"x", "y"}
Scopes ==
    { Scope(n, r, s) : n \in {Nil, "net"}, r \in {Nil} \cup Names,
                       s \in {Nil} \cup Names }
Permissions == {"p"}
Bools == {"true", "false"}

\* what writeForSuccessResponse hands back: an error, or a response with
\* success = true whose has_permission field is has (Nil: missing)
PermissionResults ==
    { [err |-> TRUE, has |-> Nil] }
    \cup { [err |-> FALSE, has |-> v] : v \in {"true", Nil} }

Called(c) ==
    /\ scopeCall' = c
    /\ scopePrev' = scopeCall

\* the application calls scope.ToSlice()
ApplyToSlice(scope) ==
    Called([NoCall EXCEPT !.op = "ToSlice", !.scope = scope,
                          !.out = ToSlice(scope)])

\* the application calls scope.ToCommandSlice()
ApplyToCommandSlice(scope) ==
    Called([NoCall EXCEPT !.op = "ToCommandSlice", !.scope = scope,
                          !.err = ToCommandSlice(scope).err,
                          !.out = ToCommandSlice(scope).s])

PermissionRequest(scope, params) ==
    [do |-> "permission", scope |-> ToSlice(scope), params |-> params]

HasPermission(permission, scope, allow, res) ==
    IF IsAll(scope)
    THEN Called([NoCall EXCEPT !.op = "HasPermission", !.scope = scope,
                               !.err = TRUE, !.ret = "false"])
    ELSE LET req == PermissionRequest(scope, <<"has", permission, allow>>)
             ok  == ~res.err /\ res.has \in Bools
         IN Called([NoCall EXCEPT !.op = "HasPermission", !.scope = scope,
                                  !.wrote = TRUE, !.req = req,
                                  !.err = ~ok,
                                  !.ret = IF ok THEN res.has ELSE "false"])

SetPermission(permission, scope, allow, res) ==
    IF IsAll(scope)
    THEN Called([NoCall EXCEPT !.op = "SetPermission", !.scope = scope,
                               !.err = TRUE])
    ELSE LET req == PermissionRequest(scope, <<"set", permission, allow>>)
         IN Called([NoCall EXCEPT !.op = "SetPermission", !.scope = scope,
                                  !.wrote = TRUE, !.req = req,
                                  !.err = res.err])

UnsetPermission(permission, scope, res) ==
    IF IsAll(scope)
    THEN Called([NoCall EXCEPT !.op = "UnsetPermission", !.scope = scope,
                               !.err = TRUE])
    ELSE LET req == PermissionRequest(scope, <<"unset", permission>>)
         IN Called([NoCall EXCEPT !.op = "UnsetPermission", !.scope = scope,
                                  !.wrote = TRUE, !.req = req,
                                  !.err = res.err])

\* SpecScope: the application calls the Scope encoders and the permission
\* methods, one after the other, with any scope.
NextScope ==
    \/ /\ \E sc \in Scopes : ApplyToSlice(sc)
       /\ UNCHANGED <<progVars, frameVars>>
    \/ /\ \E sc \in Scopes : ApplyToCommandSlice(sc)
       /\ UNCHANGED <<progVars, frameVars>>
    \/ /\ \E p \in Permissions, sc \in Scopes, allow \in Bools,
             res \in PermissionResults : HasPermission(p, sc, allow, res)
       /\ UNCHANGED <<progVars, frameVars>>
    \/ /\ \E p \in Permissions, sc \in Scopes, allow \in Bools,
             res \in PermissionResults : SetPermission(p, sc, allow, res)
       /\ UNCHANGED <<progVars, frameVars>>
    \/ /\ \E p \in Permissions, sc \in Scopes,
             res \in PermissionResults : UnsetPermission(p, sc, res)
       /\ UNCHANGED <<progVars, frameVars>>

SpecScope == Init /\ [][NextScope]_vars

\* SpecLive: the correlation engine with a core that answers every request
\* in the order received.  The core sends at most MaxEvents events and the
\* handlers write at most MaxCalls requests; a handler that is running
\* returns, the loop of handleEvent goes on, and a response the core has
\* sent is read by the call that is blocked in read.
NextInOrder ==
    \/ /\ \E e \in EventTypes, werr \in BOOLEAN : Subscribe(e, werr)
       /\ UNCHANGED <<frameVars, scopeVars>>
    \/ /\ \E werr \in BOOLEAN : Networks(werr)
       /\ UNCHANGED <<frameVars, scopeVars>>
    \/ /\ Listen
       /\ UNCHANGED <<frameVars, scopeVars>>
    \/ /\ \E m \in InOrderFrames : waitForResponse(FALSE, m)
       /\ UNCHANGED <<frameVars, scopeVars>>
    \/ /\ waitForResponse(TRUE, NoMsg)
       /\ UNCHANGED <<frameVars, scopeVars>>
    \/ /\ \E m \in InOrderFrames : waitForEvent(FALSE, m)
       /\ UNCHANGED <<frameVars, scopeVars>>
    \/ /\ waitForEvent(TRUE, NoMsg)
       /\ UNCHANGED <<frameVars, scopeVars>>
    \/ /\ \E h \in 0..lastHandle : handleEventNext(h)
       /\ UNCHANGED <<frameVars, scopeVars>>
    \/ /\ handleEventReturn
       /\ UNCHANGED <<frameVars, scopeVars>>
    \/ /\ HandlerReturn
       /\ UNCHANGED <<frameVars, scopeVars>>

FairEngine ==
    /\ WF_vars(\E m \in Responses({1}) :
                  /\ waitForResponse(FALSE, m)
                  /\ UNCHANGED <<frameVars, scopeVars>>)
    /\ WF_vars(\E h \in 0..lastHandle :
                  handleEventNext(h) /\ UNCHANGED <<frameVars, scopeVars>>)
    /\ WF_vars(handleEventReturn /\ UNCHANGED <<frameVars, scopeVars>>)
    /\ WF_vars(HandlerReturn /\ UNCHANGED <<frameVars, scopeVars>>)

SpecLive == Init /\ [][NextInOrder]_vars /\ FairEngine

\* ---- properties: correlation ---------------------------------------------
\* C1: with a core that answers in the order received and no transport or
\* decoding failure, every call that returns a response returns the response
\* to its own request, at every nesting depth.
C1_OwnResponse == (inOrder /\ ~faulted) => ~misrouted

\* The call that has just returned was handed a response.
Returned == last.phase = "ret" /\ last.got # 0

\* C2, as claimed: in the nesting scenario (an outer call, an event, one call
\* of the handler; nesting depth 1) in which the inner response is read
\* before the outer response, each call returns its own response.
C2_InnerFirst ==
    (Returned /\ ~faulted /\ maxNest <= 1 /\ ~inOrder) => last.got = last.req

\* C2, amended: in that scenario with the outer response read before the
\* inner response, each call returns its own response.
C2_OuterFirst ==
    (Returned /\ ~faulted /\ maxNest <= 1 /\ inOrder) => last.got = last.req

\* the outer call returns its own response after the call of the handler,
\* nested in it, returned its own
C2_Witness ==
    /\ Returned /\ last.got = last.req
    /\ inOrder /\ ~faulted /\ ~misrouted /\ maxNest = 1
    /\ \E i \in DOMAIN delivered : delivered[i] > last.req

QCount(id) ==
    Cardinality({i \in DOMAIN responseQueue : responseQueue[i].id = id})
DCount(id) == Cardinality({i \in DOMAIN delivered : delivered[i] = id})
Waiting == \E i \in DOMAIN stack : stack[i].k = "wait"

\* every response a call has read is either in the queue or was returned to
\* a call, once; what left the queue was returned
C3_Held ==
    /\ \A id \in 1..reqCount :
          QCount(id) + DCount(id) = IF id \in readR THEN 1 ELSE 0
    /\ \A id \in dequeued : DCount(id) = 1 /\ QCount(id) = 0

\* no response stays in the queue once no call is waiting
C3_Drained == ~Waiting => responseQueue = << >>

\* the queue changes by an append at the tail, or by the removal of its head,
\* which the step returns to a call
C3_Step ==
    responseQueue' # responseQueue =>
        \/ /\ Len(responseQueue') = Len(responseQueue) + 1
           /\ SubSeq(responseQueue', 1, Len(responseQueue)) = responseQueue
        \/ /\ responseQueue # << >>
           /\ responseQueue' = Tail(responseQueue)
           /\ last'.phase = "ret"
           /\ last'.got = Head(responseQueue).id

\* C3: every response appended to the pending-response queue is removed once,
\* from the head, and returned to one call; no response read by a call is
\* returned twice or dropped.
C3_QueueConserved == [](C3_Held /\ C3_Drained) /\ [][C3_Step]_vars

\* responses went through the queue and no call is waiting any more
C3_Witness == dequeued # {} /\ stack = << >> /\ Cardinality(dequeued) >= 2

\* ---- properties: registry ------------------------------------------------
Registered(e) == {i \in DOMAIN issued : issued[i].l.event = e}

\* C4: two successful Subscribe calls for one event type write exactly one
\* "subscribe" request for it.
C4_OneSubscribeRequest ==
    \A e \in EventTypes :
        Cardinality(Registered(e)) = 2 => subWritten[e] = 1

\* the step in which Unsubscribe is called (it returns at once, or writes its
\* request and blocks)
UnsubscribeCalled ==
    /\ last'.op = "unsubscribe"
    /\ last'.phase = "call" \/ last'.req = 0

\* C5: Unsubscribe of a registered listener calls write exactly when the
\* listener is not a command listener and no listener that remains has its
\* event type.
C5_Step ==
    (UnsubscribeCalled /\ last'.h \in DOMAIN listeners) =>
        LET l == listeners[last'.h] IN
            /\ DOMAIN listeners' = DOMAIN listeners \ {last'.h}
            /\ last'.wrote <=>
                  /\ l.event # EventCommand
                  /\ ~\E x \in DOMAIN listeners' :
                        listeners'[x].event = l.event

C6_Handles ==
    /\ issued # << >> => issued[1].h = 1
    /\ \A i, j \in DOMAIN issued : i < j => issued[i].h < issued[j].h
    /\ (last.phase = "ret" /\ last.op \in {"subscribe", "command"}
           /\ ~last.err) => last.h = issued[Len(issued)].h

\* a registration made by a handler completes after an earlier listener was
\* unregistered
C6_Witness ==
    /\ last.phase = "ret" /\ last.op \in {"subscribe", "command"}
    /\ last.h > 1 /\ callDepth > 0
    /\ \E i \in DOMAIN issued :
          issued[i].h < last.h /\ issued[i].h \notin DOMAIN listeners

\* C7: Unsubscribe with a handle that is not registered returns an error,
\* does not call write and changes nothing.
C7_Step ==
    (UnsubscribeCalled /\ last'.h \notin DOMAIN listeners) =>
        /\ last'.phase = "ret" /\ last'.err /\ ~last'.wrote
        /\ UNCHANGED <<listeners, lastHandle, callDepth, responseQueue,
                       connOut, reqCount, stack>>

C7_UnknownHandle == [][C7_Step]_vars

\* Unsubscribe was called with a handle that was unsubscribed before
C7_Witness ==
    /\ last.op = "unsubscribe" /\ last.phase = "ret" /\ last.err
    /\ ~last.wrote
    /\ \E i \in DOMAIN issued : issued[i].h = last.h

\* the request of the call that returns failed: write failed, or read
\* failed, or the response does not carry success = true
RequestFailed(l) ==
    \/ l.req = 0 /\ l.wrote
    \/ l.req # 0 /\ (l.got = 0 \/ l.succ # "true")

\* C8: Subscribe and SubscribeCommand whose request fails return an error,
\* add no listener and leave lastHandle unchanged.
C8_Step ==
    (/\ last'.op \in {"subscribe", "command"}
     /\ last'.phase = "ret"
     /\ RequestFailed(last')) =>
        /\ last'.err /\ last'.h = NoHandle
        /\ UNCHANGED <<listeners, lastHandle, issued>>

C8_FailedSubscribe == [][C8_Step]_vars

\* a registration failed on success = false with listeners registered
C8_Witness ==
    /\ last.op \in {"subscribe", "command"} /\ last.phase = "ret"
    /\ last.succ = "false" /\ last.err
    /\ DOMAIN listeners # {}

\* ---- properties: dispatch ------------------------------------------------
Range(q) == {q[i] : i \in DOMAIN q}
Dispatching == {i \in DOMAIN stack : stack[i].k = "dispatch"}
ListenerOf(h) == issued[CHOOSE i \in DOMAIN issued : issued[i].h = h].l

\* the listener l is to be invoked for the event evt
Addressed(l, evt) ==
    /\ l.event = evt.Event
    /\ evt.Event = "COMMAND" => l.command = evt.Command

\* handleEvent has reached the end of its loop
Finished(i) == i = Len(stack) /\ Required(stack[i]) = {}

\* C9: a dispatch invokes no listener that the event is not addressed to,
\* none twice, and, when it ends, has invoked every registered listener the
\* event is addressed to (registered since the dispatch began).
C9_Dispatch ==
    \A i \in Dispatching :
        LET f == stack[i] IN
        /\ \A h \in Range(f.inv) : Addressed(ListenerOf(h), f.evt)
        /\ \A a, b \in DOMAIN f.inv : a # b => f.inv[a] # f.inv[b]
        /\ Finished(i) =>
              \A h \in f.start \cap DOMAIN listeners :
                  Addressed(listeners[h], f.evt) => h \in Range(f.inv)

\* a COMMAND dispatch ends: it invoked the listener with the event's command
\* name and not the listener of another command
C9_Witness ==
    \E i \in Dispatching :
        /\ Finished(i)
        /\ stack[i].evt.Event = "COMMAND"
        /\ Len(stack[i].inv) = 1
        /\ \E h \in stack[i].start \cap DOMAIN listeners :
              /\ listeners[h].event = EventCommand
              /\ listeners[h].command # stack[i].evt.Command

\* C10: the listeners a dispatch invokes are invoked in registration order,
\* that is in ascending order of their handles.
C10_RegistrationOrder ==
    \A i \in Dispatching :
        \A a, b \in DOMAIN stack[i].inv :
            a < b => stack[i].inv[a] < stack[i].inv[b]

\* ---- properties: failures ------------------------------------------------
\* C11: a method is handed the response only when its success field is the
\* boolean true; a response without success, with a success that is no
\* boolean, or with success = false gives an error and a nil message.
C11_SuccessOnly ==
    (last.phase = "ret" /\ last.op # "listen" /\ last.got # 0) =>
        IF last.succ = "true"
        THEN ~last.err /\ last.data = Response(last.got, "true")
        ELSE last.err /\ last.data = NoMsg

\* a response whose success is not a boolean was turned into an error
C11_Witness ==
    /\ last.phase = "ret" /\ last.got # 0 /\ last.succ = NonStr
    /\ last.err /\ last.data = NoMsg

\* C12: a call that waited while a call made by a handler failed returns an
\* error itself.
C12_Step ==
    (/\ last'.phase = "ret" /\ last'.req # 0
     /\ \E i \in DOMAIN stack :
           stack[i].k = "wait" /\ stack[i].req = last'.req /\ stack[i].nf)
        => last'.err

C12_NestedFailurePropagates == [][C12_Step]_vars

\* C13: a frame without an event read by the Listen loop makes Listen return
\* an error; no handler runs for it and it is not put in the queue.
C13_Step ==
    (stack # << >> /\ Top.k = "listen" /\ connOut' # connOut) =>
        /\ last'.op = "listen" /\ last'.phase = "ret" /\ last'.err
        /\ stack' = Pop(stack)
        /\ UNCHANGED <<responseQueue, callDepth, listeners>>

C13_ListenNonEvent == [][C13_Step]_vars

\* Listen has returned on a response frame
C13_Witness ==
    /\ last.op = "listen" /\ last.phase = "ret" /\ last.err
    /\ last.got # 0

\* C14: ToCommandSlice fails exactly for a scope with both receiver and
\* sender; SubscribeCommand with such a scope returns the error without
\* writing and registers nothing, and with any other scope writes its
\* request.
C14_Step ==
    \A c \in Commands, sc \in CommandScopes :
        SubscribeCommand(c, sc, FALSE) =>
            IF sc.Receiver # Nil /\ sc.Sender # Nil
            THEN /\ last'.phase = "ret" /\ last'.err /\ ~last'.wrote
                 /\ UNCHANGED <<connOut, reqCount, listeners, lastHandle,
                                issued, stack>>
            ELSE last'.phase = "call" /\ last'.wrote /\ ~last'.err

C14_ScopeError == [][C14_Step]_vars

\* SubscribeCommand has returned the scope error, with listeners registered
C14_Witness ==
    /\ last.op = "command" /\ last.phase = "ret" /\ last.req = 0
    /\ last.err /\ ~last.wrote
    /\ DOMAIN listeners # {}

\* the step returns, with an error, a call whose response carries
\* success = false; i is the place of the call in the stack
FailedOnFalse(i) ==
    /\ last'.phase = "ret" /\ last'.op # "listen"
    /\ last'.got # 0 /\ last'.succ = "false"
    /\ i \in DOMAIN stack
    /\ stack[i].k = "wait" /\ stack[i].req = last'.req

\* C17, as claimed: after any call that fails on success = false, callDepth
\* and the queue are as they were when the call was made.
C17_AnyStep ==
    \A i \in DOMAIN stack :
        FailedOnFalse(i) =>
            callDepth' = stack[i].d0 /\ responseQueue' = stack[i].q0

C17_Step ==
    FailedOnFalse(1) =>
        /\ callDepth' = stack[1].d0 /\ responseQueue' = stack[1].q0
        /\ stack' = << >>

\* ... and once a response without success = true was received, a call
\* still returns the response to its own request (core in order, no
\* transport or decoding error, calls at most one handler deep: see C1).
C17_NextCall ==
    (Returned /\ inOrder /\ ~faulted /\ faults > 0 /\ maxNest <= 1) =>
        last.got = last.req

Running(i) ==
    \/ i = Len(stack)
    \/ i + 1 = Len(stack) /\ stack[i + 1].k = "handler"

\* C18, as claimed: while the handlers of an event run, callDepth is one
\* higher than when its frame was read, whoever read it.
C18_DepthRaised ==
    \A i \in Dispatching : Running(i) => callDepth = stack[i].d0 + 1

\* C18, amended: one higher for a frame read by a call that waits for a
\* response, unchanged for a frame read by the Listen loop ...
C18_Depth ==
    \A i \in Dispatching :
        Running(i) =>
            callDepth = stack[i].d0
                        + (IF stack[i - 1].k = "wait" THEN 1 ELSE 0)

\* ... and back at the value it had when the frame was read once the
\* dispatch exits, also when the event does not decode.
C18_Exit ==
    /\ (stack # << >> /\ Top.k = "dispatch" /\ Len(stack') < Len(stack))
          => callDepth' = Top.d0
    /\ (evCount' # evCount /\ Len(stack') < Len(stack))
          => callDepth' = callDepth

C18_DepthByReader == []C18_Depth /\ [][C18_Exit]_vars

\* a handler runs for a frame read by a waiting call, itself inside a
\* handler of a frame read by the Listen loop
C18_Witness ==
    /\ Len(stack) >= 6
    /\ stack[1].k = "listen" /\ stack[2].k = "dispatch"
    /\ stack[Len(stack)].k = "handler"
    /\ stack[Len(stack) - 2].k = "wait"
    /\ callDepth = 1

\* ---- properties: framing -------------------------------------------------
\* the bytes of a frame the peer wrote, and of the frames from the i-th on
FrameBytes(f) == f.sep \o Encode(f.text)

RECURSIVE Stream(_)
Stream(i) ==
    IF i > Len(sent) THEN << >> ELSE FrameBytes(sent[i]) \o Stream(i + 1)

\* the frames written that read has returned
Read == DOMAIN recv \cap DOMAIN sent
\* the frame read will return next
Awaited == {i \in DOMAIN sent : i = Len(recv) + 1}

LongText == <<"\n", "\n", "\n", "\n">>

\* C15: the bytes write produces for a message are, to checkMessage, one
\* complete frame with as many prefix bytes as the length has digits and as
\* many body bytes as the JSON body has, and read returns the message.
C15_RoundTrip ==
    /\ \A i \in Awaited :
          buffer = Encode(sent[i].text) =>
              checkMessage(buffer) =
                  [found |-> TRUE,
                   offset |-> Len(Itoa(Len(Marshal(sent[i].text)))),
                   messageLen |-> Len(Marshal(sent[i].text))]
    /\ \A i \in Read : ~recv[i].err /\ recv[i].text = sent[i].text

\* read has returned a message with escapes and a two-digit length
C15_Witness ==
    \E i \in Read :
        /\ sent[i].text = LongText /\ sent[i].sep = << >>
        /\ ~recv[i].err /\ recv[i].text = LongText

\* what read returns for the bytes b buffered in one piece
OnePiece(b) == [err |-> ReadFrame(b).err, text |-> ReadFrame(b).text]

\* C16: however conn.Read cuts a frame, checkMessage finds no frame while
\* the frame is not buffered whole, and read returns what it returns for
\* the frame in one piece.
C16_Chunking ==
    /\ \A i \in Awaited :
          Len(buffer) < Len(FrameBytes(sent[i])) => ~checkMessage(buffer).found
    /\ \A i \in Read :
          [err |-> recv[i].err, text |-> recv[i].text]
              = OnePiece(FrameBytes(sent[i]))

\* after a first frame was returned, the buffer holds the first digit only
\* of the length 10 of the next
C16_Witness ==
    /\ recv # << >>
    /\ \E i \in Awaited :
          /\ sent[i].text = LongText /\ sent[i].sep = << >>
          /\ buffer = <<"1">>
          /\ ~checkMessage(buffer).found

\* C19: a read that finds a frame removes its prefix and its body from the
\* front of the buffer and nothing else, and returns the frames in the
\* order written; what is buffered and what is still to come are the frames
\* not returned yet.
C19_Step ==
    recv' # recv =>
        LET c == checkMessage(buffer) IN
        /\ c.found
        /\ buffer = SubSeq(buffer, 1, c.offset + c.messageLen) \o buffer'
        /\ Len(recv') \in DOMAIN sent =>
              recv'[Len(recv')].text = sent[Len(recv')].text

C19_Stream ==
    Len(recv) <= Len(sent) =>
        buffer \o wire = Stream(Len(recv) + 1) \o garbage

C19_Consume == [][C19_Step]_vars /\ []C19_Stream

\* read returned the first frame while the whole second frame was buffered
\* behind it, and the buffer now holds the second frame
C19_Witness ==
    /\ Len(recv) = 1 /\ Len(sent) = 2 /\ ~recv[1].err
    /\ recv[1].had = Len(FrameBytes(sent[1])) + Len(FrameBytes(sent[2]))
    /\ buffer = FrameBytes(sent[2])

\* the buffer starts with a malformed length prefix: the loop of
\* checkMessage stops at a byte with no length decoded
BadPrefix(buf) ==
    Scan(buf, 0, 0).offset < Len(buf) /\ Scan(buf, 0, 0).messageLen = 0

\* C20: once the buffer starts with a malformed length prefix, read
\* returns an error.
C20_FramingError ==
    (rdErr = "none" /\ BadPrefix(buffer)) ~> (rdErr # "none")

\* a public method whose write fails: writeForSuccessResponse is entered with
\* a conn.Write that returns an error
WriteFails ==
    \/ \E e \in EventTypes : Subscribe(e, TRUE)
    \/ Networks(TRUE)

\* C21: when the write of a request fails, the call returns the error in the
\* same step: no frame is read, no handler is invoked, callDepth and the
\* response queue stay as they were.  When a read fails while a call is
\* blocked, that call returns the error.
C21_Step ==
    /\ WriteFails =>
          /\ last'.phase = "ret" /\ last'.err /\ last'.wrote
          /\ last'.req = 0 /\ last'.got = 0
          /\ UNCHANGED <<callDepth, responseQueue, connOut, evCount, readR,
                         delivered, reqCount, listeners>>
          /\ Len(stack') = Len(stack)
          /\ \A i \in DOMAIN stack : stack'[i].k = stack[i].k
    /\ waitForResponse(TRUE, NoMsg) =>
          /\ last'.phase = "ret" /\ last'.err
          /\ last'.req = Top.req /\ last'.op = Top.op
          /\ last'.got = 0 /\ last'.data = NoMsg
          /\ Len(stack') = Len(stack) - 1
          /\ UNCHANGED <<callDepth, responseQueue, connOut, evCount, readR>>

C21_FailureReturns == [][C21_Step]_vars

\* a handler's call has returned the error of write while an outer call
\* waits at depth 1
C21_Witness ==
    /\ last.phase = "ret" /\ last.err /\ last.wrote /\ last.req = 0
    /\ callDepth = 1
    /\ stack # << >> /\ Top.k = "handler"

\* the innermost activity is a call blocked in waitForResponse, about to read
Reading == stack # << >> /\ Top.k = "wait"

\* C24: whenever a call is about to read a frame, the response queue holds
\* at most callDepth entries; whenever no call is in progress (before and
\* after a call of the application, and each time Listen is about to read),
\* callDepth is 0 and the queue is empty.
C24_QueueBound ==
    /\ Reading => Len(responseQueue) <= callDepth
    /\ ~Waiting => callDepth = 0 /\ responseQueue = << >>

\* a handler's call is about to read with the outer call's response queued,
\* after a failure
C24_Witness ==
    /\ Reading /\ callDepth = 1 /\ Len(responseQueue) = 1
    /\ faulted

\* the call that wrote request r is blocked in waitForResponse, or waits
\* below a handler that runs
CallWaits(r) ==
    \E i \in DOMAIN stack : stack[i].k = "wait" /\ stack[i].req = r

\* C25: with a core that answers every request in the order received,
\* finitely many events and handlers that issue finitely many calls, every
\* call eventually returns.
C25_EveryCallReturns ==
    \A r \in 1..MaxCalls : CallWaits(r) ~> ~CallWaits(r)

\* the outermost of three nested calls has returned, taking its response
\* from the queue
C25_Witness ==
    /\ last.phase = "ret" /\ last.req # 0 /\ last.got # 0
    /\ last.got \in dequeued
    /\ maxNest = 2 /\ inOrder /\ stack = << >>

\* the handles Subscribe and SubscribeCommand have returned so far
Handles == { issued[i].h : i \in DOMAIN issued }

\* C27: Unsubscribe with a registered handle removes the listener in the
\* step that calls it, whatever becomes of the "unsubscribe" request; a
\* request that fails makes Unsubscribe return an error; the listener stays
\* removed, and Unsubscribe with the same handle fails as not found.
C27_Step ==
    /\ \A h \in DOMAIN listeners, werr \in BOOLEAN :
          Unsubscribe(h, werr) => h \notin DOMAIN listeners'
    /\ \A h \in Handles :
          h \notin DOMAIN listeners => h \notin DOMAIN listeners'
    /\ (/\ last'.op = "unsubscribe" /\ last'.phase = "ret"
        /\ (last'.wrote \/ last'.req # 0)
        /\ last'.succ # "true") => last'.err
    /\ \A h \in Handles \ DOMAIN listeners :
          Unsubscribe(h, FALSE) =>
              /\ last'.phase = "ret" /\ last'.err /\ ~last'.wrote
              /\ UNCHANGED <<listeners, connOut, reqCount, stack>>

C27_RemovedWhateverOutcome == [][C27_Step]_vars

\* the only listener was unsubscribed, the read of the response to the
\* "unsubscribe" request failed, and Unsubscribe with the same handle has
\* now returned the error for an unknown handle
C27_Witness ==
    /\ last.op = "unsubscribe" /\ last.phase = "ret" /\ last.req = 0
    /\ last.err /\ ~last.wrote /\ last.h \in Handles
    /\ Len(issued) = 1 /\ regCount = 1 /\ reqCount = 2
    /\ 2 \notin readR /\ faulted /\ stack = << >>

\* ---- properties: scopes ---------------------------------------------------
\* the two most recent calls were ToCommandSlice on a scope with only the
\* receiver set and on a scope with only the sender set, with the same
\* network and the same name
ReceiverThenSender ==
    /\ scopePrev.op = "ToCommandSlice" /\ scopeCall.op = "ToCommandSlice"
    /\ scopePrev.scope.Network # Nil
    /\ scopePrev.scope.Network = scopeCall.scope.Network
    /\ scopePrev.scope.Receiver # Nil /\ scopePrev.scope.Sender = Nil
    /\ scopeCall.scope.Sender # Nil /\ scopeCall.scope.Receiver = Nil
    /\ scopePrev.scope.Receiver = scopeCall.scope.Sender

\* C22: for the same network and the same name, ToCommandSlice returns
\* different slices for a scope with only Receiver set and a scope with only
\* Sender set.
C22_Distinguishable ==
    ReceiverThenSender =>
        /\ ~scopePrev.err /\ ~scopeCall.err
        /\ scopePrev.out # scopeCall.out

C26_ScopeNotEmpty ==
    (/\ scopeCall.op \in {"HasPermission", "SetPermission",
                          "UnsetPermission"}
     /\ scopeCall.wrote) => scopeCall.req.scope # << >>
====
